---- MODULE Spec2Model ----
(***************************************************************************)
(* A model of rttyd's session bridge: start_command (crates/rtty) with its *)
(* output stream and its spawned input task, and handle_socket              *)
(* (crates/rttyd), the control loop that drives them for one websocket.     *)
(*                                                                          *)
(* The specifications share the variables:                                  *)
(*   Spec        - handle_socket is the consumer of the stream and the      *)
(*                 producer of input commands (the rttyd program);          *)
(*   SpecCommand - start_command used through its public interface by an    *)
(*                 arbitrary caller that polls the stream, fires the        *)
(*                 aborter and sends input at any moment (the rtty crate);  *)
(*   SpecDecode  - Spec with a peer that sends well-formed input only, the  *)
(*                 messages received being kept;                            *)
(*   SpecFull    - SpecDecode from a session whose input channel is full.   *)
(***************************************************************************)
EXTENDS Integers, Sequences, FiniteSets, TLC

\* ------------------------------------------------------------------ bounds
\* Chunks the child writes to its terminal before it exits.
MaxChunks == 2
\* Messages the peer sends during a session.
MaxMsgs == 2
\* Items an arbitrary caller of start_command sends into the sink.
MaxSends == 1
\* Times the aborter is fired by an arbitrary caller.
MaxFires == 2
\* Times a failing child.wait() is reported before the model stops counting.
MaxWaitErrs == 1
\* Operations the input task applies to the PTY before the model stops
\* following it.
MaxApplied == 2

\* ------------------------------------------------------- program constants
\* tokio::sync::mpsc::channel::<CommandInputItem>(200)
InputQueueCap == 200

VARIABLES
    \* --- the child process and its PTY (the environment of start_command)
    child,            \* "running" | "exited"
    status,           \* Option<i32> of ExitStatus::code(): <<>> is None
    emitted,          \* chunks the child has written so far: 1..emitted
    pty_buf,          \* chunks written and not yet read from the PTY
    \* --- the output stream (the stream! generator of start_command)
    stream_pc,        \* "start" | "select" | "yieldLoop" | "yieldExit" | "done"
    out_stream,       \* ReaderStream: "open" | "closed" (fused after error)
    aborter_notified, \* the select!'s aborter.notified() future was woken
    events,           \* the CommandOutputItems yielded so far
    kills,            \* calls of child.start_kill()
    \* --- the spawned input task
    task_pc,          \* "start" | "select" | "writing" | "done" | "panicked"
    exited_notified,  \* the select!'s exited.notified() future was woken
    input_q,          \* the mpsc channel of CommandInputItems
    cur_input,        \* <<item>> while pty_in.write() is awaited, else <<>>
    pty_log,          \* operations applied to the PTY write half, in order
    \* --- handle_socket
    socket_pc,        \* "select" | "enqueue" | "peerSend" | "done" | "panicked" | "caller"
    pending,          \* <<x>>: the item being sent while a send is awaited
    n_recv,           \* inbound messages received so far
    peer_frames,      \* frames sent to the peer, in order
    panic_cause,      \* which unwrap() unwound handle_socket, "" if none
    \* --- history
    abort_fires,      \* calls of aborter.notify_waiters()
    fired_at,         \* where the stream was when the aborter was first fired with
                      \* the child running and no Exit yielded yet, "" if never
    wait_failures,    \* times child.wait() returned Err to the stream
    inbox             \* the inbound messages taken from rx.next(), in order, in
                      \* the specifications that keep them (SpecDecode)

envVars    == <<child, status, emitted, pty_buf>>
streamVars == <<stream_pc, out_stream, aborter_notified, events, kills>>
taskVars   == <<task_pc, exited_notified, input_q, cur_input, pty_log>>
socketVars == <<socket_pc, pending, n_recv, peer_frames, panic_cause>>
histVars   == <<abort_fires, fired_at, wait_failures, inbox>>
vars == <<envVars, streamVars, taskVars, socketVars, histVars>>

\* ----------------------------------------------------------------- helpers
Last(s) == s[Len(s)]

None == <<>>
Some(x) == <<x>>

\* Option::unwrap_or
UnwrapOr(opt, d) == IF opt = None THEN d ELSE opt[1]

\* CommandOutputItem::{Output, Error, Exit}
Output(b) == [type |-> "Output", data |-> b,    text |-> ""]
Error(t)  == [type |-> "Error",  data |-> <<>>, text |-> t]
Exit(t)   == [type |-> "Exit",   data |-> <<>>, text |-> t]

\* format!("Command exited with status code: {code}")
ExitedText(code) == "Command exited with status code: " \o ToString(code)

\* "Aborted".to_string()
AbortedText == "Aborted"

\* io::Error::to_string() for the errno values the model draws from
IoErrorText(errno) ==
    CASE errno = 5  -> "Input/output error (os error 5)"
      [] errno = 9  -> "Bad file descriptor (os error 9)"
      [] errno = 10 -> "No child processes (os error 10)"

\* The errno values a PTY read can fail with: EIO and one other.
ReadErrnos == {5, 9}

\* Exit codes the child exits with on its own.
ExitCodes == {0, 1}

\* Notify::notify_waiters(): wakes the Notified futures that exist, stores
\* no permit for one created later.
NotifyWaiters(waiting, notified) == IF waiting THEN TRUE ELSE notified

\* ------------------------------------------------- the child and its PTY
\* The child writes one more chunk to its terminal.
ChildEmit ==
    /\ child = "running"
    /\ emitted < MaxChunks
    /\ emitted' = emitted + 1
    /\ pty_buf' = Append(pty_buf, emitted + 1)
    /\ UNCHANGED <<child, status, streamVars, taskVars, socketVars, histVars>>

\* The child exits on its own.
ChildExit ==
    /\ child = "running"
    /\ \E code \in ExitCodes : status' = Some(code)
    /\ child' = "exited"
    /\ UNCHANGED <<emitted, pty_buf, streamVars, taskVars, socketVars, histVars>>

\* ------------------------------------------------------ the output stream
\* Every arm below is one outcome of a poll of the stream. A poll resumes the
\* generator where it was suspended: at "start" and "yieldLoop" it enters
\* select! afresh (new out_stream.next(), child.wait() and aborter.notified()
\* futures, so an earlier wake-up is gone), at "select" it polls the futures
\* it already holds. tokio::select! polls the ready arms in random order: any
\* ready arm may be the one taken. The arms leave the variables of the other
\* flows to the caller of the poll.
StreamCanSelect == stream_pc \in {"start", "yieldLoop", "select"}

\* The wake-up the aborter.notified() future of this select! holds.
StreamNotified == stream_pc = "select" /\ aborter_notified

StreamFrame == UNCHANGED emitted

\* Ok(b) => yield CommandOutputItem::Output(b.into())
\* One read returns all the PTY holds: the chunks written since the last
\* read come out as one item (the output pending is taken to fit
\* ReaderStream's buffer).
StreamOutput ==
    /\ StreamCanSelect
    /\ out_stream = "open"
    /\ pty_buf # <<>>
    /\ events' = Append(events, Output(pty_buf))
    /\ pty_buf' = <<>>
    /\ stream_pc' = "yieldLoop"
    /\ aborter_notified' = FALSE
    /\ UNCHANGED <<out_stream, kills, child, status, exited_notified, wait_failures>>
    /\ StreamFrame

\* What child.wait() returns once the child has exited: Ok(status), or
\* Err when the wait itself fails.
WaitResults == {"Ok", "Err"}

\* status = child.wait() => match status { Err(err) => yield Error, Ok(status) => yield Exit }
WaitArm ==
    /\ child = "exited"
    /\ \E res \in WaitResults :
         IF res = "Err"
         THEN /\ wait_failures < MaxWaitErrs
              /\ events' = Append(events, Error(IoErrorText(10)))
              /\ stream_pc' = "yieldLoop"
              /\ wait_failures' = wait_failures + 1
         ELSE /\ events' = Append(events, Exit(ExitedText(UnwrapOr(status, 0))))
              /\ stream_pc' = "yieldExit"
              /\ wait_failures' = wait_failures
    /\ aborter_notified' = FALSE
    /\ UNCHANGED <<kills, child, status, exited_notified>>
    /\ StreamFrame

StreamWait ==
    /\ StreamCanSelect
    /\ WaitArm
    /\ UNCHANGED <<out_stream, pty_buf>>

\* StreamReadError without the guard for EIO: every read error is yielded.
StreamReadErrorNoWorkaround ==
    /\ StreamCanSelect
    /\ out_stream = "open"
    /\ \E errno \in ReadErrnos :
          /\ (errno = 5) => (child = "exited" /\ pty_buf = <<>>)
          /\ out_stream' = "closed"
          /\ events' = Append(events, Error(IoErrorText(errno)))
          /\ stream_pc' = "yieldLoop"
          /\ aborter_notified' = FALSE
          /\ UNCHANGED <<kills, child, status, exited_notified, wait_failures>>
          /\ StreamFrame
    /\ UNCHANGED pty_buf

\* Err(err) if err.to_string() == "Input/output error (os error 5)" => continue,
\* Err(err) => yield CommandOutputItem::Error(err.to_string())
\* ReaderStream drops its reader on an error and yields None from then on.
\* EIO is what a read of the PTY returns once the child has exited and the
\* buffer is drained; after the continue the fresh select! finds the read arm
\* disabled and child.wait() ready, all within the same poll.
StreamReadError ==
    /\ StreamCanSelect
    /\ out_stream = "open"
    /\ \E errno \in ReadErrnos :
          /\ (errno = 5) => (child = "exited" /\ pty_buf = <<>>)
          /\ out_stream' = "closed"
          /\ IF IoErrorText(errno) = "Input/output error (os error 5)"
             THEN WaitArm
             ELSE /\ events' = Append(events, Error(IoErrorText(errno)))
                  /\ stream_pc' = "yieldLoop"
                  /\ aborter_notified' = FALSE
                  /\ UNCHANGED <<kills, child, status, exited_notified, wait_failures>>
                  /\ StreamFrame
    /\ UNCHANGED pty_buf

\* child.start_kill(): SIGKILL ends a running child, which then has no exit
\* code; on a child that already exited it fails and the failure is logged.
StartKill ==
    /\ kills' = kills + 1
    /\ child' = "exited"
    /\ status' = IF child = "running" THEN None ELSE status

\* _ = aborter.notified() => { start_kill; yield Exit("Aborted"); ... }
StreamAbort ==
    /\ StreamNotified
    /\ StartKill
    /\ events' = Append(events, Exit(AbortedText))
    /\ stream_pc' = "yieldExit"
    /\ aborter_notified' = FALSE
    /\ UNCHANGED <<out_stream, pty_buf, exited_notified, wait_failures>>
    /\ StreamFrame

\* No arm is ready: the generator suspends inside select!, holding its futures.
StreamPending ==
    /\ stream_pc \in {"start", "yieldLoop"}
    /\ child = "running"
    /\ out_stream = "closed" \/ pty_buf = <<>>
    /\ stream_pc' = "select"
    /\ aborter_notified' = FALSE
    /\ UNCHANGED <<out_stream, events, kills, child, status, pty_buf, exited_notified, wait_failures>>
    /\ StreamFrame

\* StreamFinish without the break: the generator goes round the loop again.
StreamFinishNoBreak ==
    /\ stream_pc = "yieldExit"
    /\ exited_notified' = NotifyWaiters(task_pc = "select", exited_notified)
    /\ stream_pc' = "yieldLoop"
    /\ UNCHANGED <<out_stream, aborter_notified, events, kills, child, status, pty_buf, wait_failures>>
    /\ StreamFrame

\* Resumed after the yield of an Exit: exited_clone.notify_waiters(); break;
\* the generator returns and the stream yields None.
StreamFinish ==
    /\ stream_pc = "yieldExit"
    /\ exited_notified' = NotifyWaiters(task_pc = "select", exited_notified)
    /\ stream_pc' = "done"
    /\ UNCHANGED <<out_stream, aborter_notified, events, kills, child, status, pty_buf, wait_failures>>
    /\ StreamFrame

StreamArms == {"output", "readError", "wait", "abort", "pending", "finish"}

\* One poll of the stream (Stream::poll_next), by the arm it takes.
StreamPoll(arm) ==
    CASE arm = "output"    -> StreamOutput
      [] arm = "readError" -> StreamReadError
      [] arm = "wait"      -> StreamWait
      [] arm = "abort"     -> StreamAbort
      [] arm = "pending"   -> StreamPending
      [] arm = "finish"    -> StreamFinish

\* aborter.notify_waiters()
FireAborter ==
    /\ aborter_notified' = NotifyWaiters(stream_pc = "select", aborter_notified)
    /\ abort_fires' = abort_fires + 1
    /\ fired_at' = IF fired_at = "" /\ child = "running" /\ stream_pc \notin {"yieldExit", "done"}
                   THEN stream_pc ELSE fired_at

\* --------------------------------------------------------- the input task
\* CommandInputItem::{Input, InputString, Resize}; seq is the position of the
\* item in the order of arrival (history, not program state).
Input(b, n)       == [kind |-> "Input",       bytes |-> b,    text |-> <<>>, size |-> <<0, 0>>, seq |-> n]
InputString(t, n) == [kind |-> "InputString", bytes |-> <<>>, text |-> t,    size |-> <<0, 0>>, seq |-> n]
Resize(sz, n)     == [kind |-> "Resize",      bytes |-> <<>>, text |-> <<>>, size |-> sz,       seq |-> n]

\* The printable ASCII characters, in code order from 32 (space) to 126 (~);
\* code 96, which no string literal can hold, is spelled GRAVE.
AsciiChars ==
    <<" ", "!", "\"", "#", "$", "%", "&", "'", "(", ")", "*", "+", ",", "-", ".", "/",
      "0", "1", "2", "3", "4", "5", "6", "7", "8", "9", ":", ";", "<", "=", ">", "?",
      "@", "A", "B", "C", "D", "E", "F", "G", "H", "I", "J", "K", "L", "M", "N", "O",
      "P", "Q", "R", "S", "T", "U", "V", "W", "X", "Y", "Z", "[", "\\", "]", "^", "_",
      "GRAVE", "a", "b", "c", "d", "e", "f", "g", "h", "i", "j", "k", "l", "m", "n", "o",
      "p", "q", "r", "s", "t", "u", "v", "w", "x", "y", "z", "{", "|", "}", "~">>

\* The byte of a character: its ASCII code ("\n" is 10).
ByteOf(c) ==
    IF c = "\n" THEN 10
    ELSE 31 + (CHOOSE i \in 1..Len(AsciiChars) : AsciiChars[i] = c)

\* str::as_bytes on a string kept as its sequence of characters
AsBytes(t) == [i \in 1..Len(t) |-> ByteOf(t[i])]

\* The bytes an item hands to pty_in.write().
WriteBuf(item) == IF item.kind = "InputString" THEN AsBytes(item.text) ELSE item.bytes

\* Enqueue putting the new item in front of the waiting ones.
EnqueueFront(q, item) == <<item>> \o q

\* The mpsc channel: tx.send appends, rx.recv takes the oldest item.
Enqueue(q, item) == Append(q, item)
RecvItem(q) == Head(q)
RecvRest(q) == Tail(q)

\* The receiver input_rx is dropped when the task returns or unwinds.
ReceiverClosed == task_pc \in {"done", "panicked"}

TaskFrame == UNCHANGED <<envVars, streamVars, socketVars, histVars>>

\* First poll of the task with nothing to receive: it suspends in select!.
TaskPending ==
    /\ task_pc = "start"
    /\ input_q = <<>>
    /\ task_pc' = "select"
    /\ exited_notified' = FALSE
    /\ UNCHANGED <<input_q, cur_input, pty_log>>
    /\ TaskFrame

\* Some(input) = input_rx.recv() => match input { ... }
\* Resize is applied at once (its failure ignored) and the loop re-enters
\* select!; Input and InputString start a write, which is awaited with the
\* select!'s futures, exited.notified() included, already dropped.
TaskRecv ==
    /\ task_pc \in {"start", "select"}
    /\ input_q # <<>>
    /\ Len(pty_log) < MaxApplied
    /\ input_q' = RecvRest(input_q)
    /\ exited_notified' = FALSE
    /\ LET item == RecvItem(input_q) IN
         IF item.kind = "Resize"
         THEN /\ \E ok \in BOOLEAN :
                    pty_log' = Append(pty_log, [op |-> "resize", seq |-> item.seq,
                                                bytes |-> <<>>, size |-> item.size, ok |-> ok])
              /\ task_pc' = "select"
              /\ cur_input' = None
         ELSE /\ task_pc' = "writing"
              /\ cur_input' = Some(item)
              /\ pty_log' = pty_log
    /\ TaskFrame

\* pty_in.write(&input).await returned Ok(n): write, not write_all, so the
\* PTY may have taken only the first n bytes; the count is discarded.
TaskWrite ==
    /\ task_pc = "writing"
    /\ LET item == cur_input[1]
           buf  == WriteBuf(item) IN
         \E n \in (IF buf = <<>> THEN {0} ELSE 1..Len(buf)) :
            pty_log' = Append(pty_log, [op |-> "write", seq |-> item.seq,
                                        bytes |-> SubSeq(buf, 1, n), size |-> <<0, 0>>, ok |-> TRUE])
    /\ task_pc' = "select"
    /\ cur_input' = None
    /\ exited_notified' = FALSE
    /\ input_q' = input_q
    /\ TaskFrame

\* pty_in.write(&input).await returned Err: .unwrap() panics, the task
\* unwinds and drops input_rx and pty_in.
TaskWriteErr ==
    /\ task_pc = "writing"
    /\ task_pc' = "panicked"
    /\ cur_input' = None
    /\ UNCHANGED <<exited_notified, input_q, pty_log>>
    /\ TaskFrame

\* _ = exited.notified() => break
TaskExited ==
    /\ task_pc = "select"
    /\ exited_notified
    /\ task_pc' = "done"
    /\ exited_notified' = FALSE
    /\ UNCHANGED <<input_q, cur_input, pty_log>>
    /\ TaskFrame

TaskArms == {"pending", "recv", "write", "writeErr", "exited"}

\* One poll of the spawned task (tokio::spawn), by the arm it takes.
TaskPoll(arm) ==
    CASE arm = "pending"  -> TaskPending
      [] arm = "recv"     -> TaskRecv
      [] arm = "write"    -> TaskWrite
      [] arm = "writeErr" -> TaskWriteErr
      [] arm = "exited"   -> TaskExited

\* The runtime schedules the spawned task.
TaskRun == \E arm \in TaskArms : TaskPoll(arm)

\* ------------------------------------- a caller of start_command (rtty API)
\* The caller polls the stream it was given.
CallerPoll ==
    /\ socket_pc = "caller"
    /\ \E arm \in StreamArms : StreamPoll(arm)
    /\ UNCHANGED <<task_pc, input_q, cur_input, pty_log, socketVars, abort_fires, fired_at, inbox>>

\* The caller fires the aborter it passed to start_command.
CallerFire ==
    /\ socket_pc = "caller"
    /\ abort_fires < MaxFires
    /\ FireAborter
    /\ UNCHANGED <<envVars, stream_pc, out_stream, events, kills, taskVars, socketVars, wait_failures, inbox>>

\* Items a caller sends into the sink: Resize(24,80), Input(b"ls\n"), InputString("hi").
CallerItems(n) == {Resize(<<24, 80>>, n), Input(<<108, 115, 10>>, n), InputString(<<"h", "i">>, n)}

\* The caller sends an item into the sink it was given.
CallerSend ==
    /\ socket_pc = "caller"
    /\ n_recv < MaxSends
    /\ ~ReceiverClosed
    /\ Len(input_q) < InputQueueCap
    /\ \E item \in CallerItems(n_recv + 1) : input_q' = Enqueue(input_q, item)
    /\ n_recv' = n_recv + 1
    /\ UNCHANGED <<envVars, streamVars, task_pc, exited_notified, cur_input, pty_log,
                   socket_pc, pending, peer_frames, panic_cause, histVars>>

\* The state start_command returns in, the channel holding the items of q.
InitSession(q) ==
    /\ child = "running" /\ status = None
    /\ emitted = 0 /\ pty_buf = <<>>
    /\ stream_pc = "start" /\ out_stream = "open" /\ aborter_notified = FALSE
    /\ events = <<>> /\ kills = 0
    /\ task_pc = "start" /\ exited_notified = FALSE /\ input_q = q
    /\ cur_input = None /\ pty_log = <<>>
    /\ pending = None /\ n_recv = 0 /\ peer_frames = <<>> /\ panic_cause = ""
    /\ abort_fires = 0 /\ fired_at = "" /\ wait_failures = 0 /\ inbox = <<>>

InitCommon == InitSession(<<>>)

InitCommand == InitCommon /\ socket_pc = "caller"

NextCommand ==
    \/ ChildEmit
    \/ ChildExit
    \/ CallerPoll
    \/ CallerFire
    \/ CallerSend
    \/ TaskRun

SpecCommand == InitCommand /\ [][NextCommand]_vars

\* ----------------------------------------------------------- handle_socket
\* An inbound text frame is kept as its sequence of characters, so that the
\* prefix test, the split and the parses are computed as the code computes
\* them. Outbound text is a string.

\* str::starts_with
StartsWith(t, p) == Len(t) >= Len(p) /\ SubSeq(t, 1, Len(p)) = p

\* text[2..]
From2(t) == SubSeq(t, 3, Len(t))

\* The base64 STANDARD alphabet: the value of a character is its index - 1.
B64Alphabet ==
    <<"A", "B", "C", "D", "E", "F", "G", "H", "I", "J", "K", "L", "M", "N", "O", "P",
      "Q", "R", "S", "T", "U", "V", "W", "X", "Y", "Z", "a", "b", "c", "d", "e", "f",
      "g", "h", "i", "j", "k", "l", "m", "n", "o", "p", "q", "r", "s", "t", "u", "v",
      "w", "x", "y", "z", "0", "1", "2", "3", "4", "5", "6", "7", "8", "9", "+", "/">>

IsB64(c) == \E i \in 1..64 : B64Alphabet[i] = c
B64Val(c) == (CHOOSE i \in 1..64 : B64Alphabet[i] = c) - 1

\* Result<Vec<u8>, DecodeError>
OkBytes(b) == [ok |-> TRUE, bytes |-> b]
ErrBytes   == [ok |-> FALSE, bytes |-> <<>>]

\* One group of four characters; last tells whether padding may end it.
B64Quad(q, last) ==
    IF IsB64(q[1]) /\ IsB64(q[2]) /\ IsB64(q[3]) /\ IsB64(q[4])
    THEN LET n == B64Val(q[1]) * 262144 + B64Val(q[2]) * 4096 + B64Val(q[3]) * 64 + B64Val(q[4])
         IN OkBytes(<<n \div 65536, (n \div 256) % 256, n % 256>>)
    ELSE IF last /\ IsB64(q[1]) /\ IsB64(q[2]) /\ IsB64(q[3]) /\ q[4] = "="
    THEN LET n == B64Val(q[1]) * 4096 + B64Val(q[2]) * 64 + B64Val(q[3])
         IN IF n % 4 = 0 THEN OkBytes(<<n \div 1024, (n \div 4) % 256>>) ELSE ErrBytes
    ELSE IF last /\ IsB64(q[1]) /\ IsB64(q[2]) /\ q[3] = "=" /\ q[4] = "="
    THEN LET n == B64Val(q[1]) * 64 + B64Val(q[2])
         IN IF n % 16 = 0 THEN OkBytes(<<n \div 16>>) ELSE ErrBytes
    ELSE ErrBytes

\* base64::engine::general_purpose::STANDARD.decode: canonical padding.
RECURSIVE B64Decode(_)
B64Decode(t) ==
    IF t = <<>> THEN OkBytes(<<>>)
    ELSE IF Len(t) < 4 THEN ErrBytes
    ELSE LET head == B64Quad(SubSeq(t, 1, 4), Len(t) = 4)
             rest == B64Decode(SubSeq(t, 5, Len(t)))
         IN IF head.ok /\ rest.ok THEN OkBytes(head.bytes \o rest.bytes) ELSE ErrBytes

\* base64::engine::general_purpose::STANDARD.encode: three bytes to four
\* characters, the last group padded with "=".
RECURSIVE B64Encode(_)
B64Encode(b) ==
    IF b = <<>> THEN <<>>
    ELSE IF Len(b) = 1
    THEN LET n == b[1] * 16
         IN <<B64Alphabet[(n \div 64) + 1], B64Alphabet[(n % 64) + 1], "=", "=">>
    ELSE IF Len(b) = 2
    THEN LET n == (b[1] * 256 + b[2]) * 4
         IN <<B64Alphabet[(n \div 4096) + 1], B64Alphabet[((n \div 64) % 64) + 1],
              B64Alphabet[(n % 64) + 1], "=">>
    ELSE LET n == b[1] * 65536 + b[2] * 256 + b[3]
         IN <<B64Alphabet[(n \div 262144) + 1], B64Alphabet[((n \div 4096) % 64) + 1],
              B64Alphabet[((n \div 64) % 64) + 1], B64Alphabet[(n % 64) + 1]>>
            \o B64Encode(SubSeq(b, 4, Len(b)))

\* text.split(";").collect::<Vec<&str>>()
RECURSIVE SplitAt(_, _, _)
SplitAt(t, sep, cur) ==
    IF t = <<>> THEN <<cur>>
    ELSE IF Head(t) = sep THEN <<cur>> \o SplitAt(Tail(t), sep, <<>>)
    ELSE SplitAt(Tail(t), sep, Append(cur, Head(t)))

Split(t, sep) == SplitAt(t, sep, <<>>)

Digits == <<"0", "1", "2", "3", "4", "5", "6", "7", "8", "9">>
IsDigit(c) == \E i \in 1..10 : Digits[i] = c
DigitVal(c) == (CHOOSE i \in 1..10 : Digits[i] = c) - 1

RECURSIVE DecimalValue(_)
DecimalValue(t) == IF t = <<>> THEN 0 ELSE DecimalValue(SubSeq(t, 1, Len(t) - 1)) * 10 + DigitVal(Last(t))

\* str::parse::<u16>(): digits after an optional "+", the value at most 65535.
ParseU16(t) ==
    LET d == IF t # <<>> /\ Head(t) = "+" THEN Tail(t) ELSE t IN
      IF d # <<>> /\ (\A i \in 1..Len(d) : IsDigit(d[i])) /\ DecimalValue(d) <= 65535
      THEN [ok |-> TRUE, val |-> DecimalValue(d)]
      ELSE [ok |-> FALSE, val |-> 0]

\* What rx.next() returns: Some(Ok(Message::...)), Some(Err(e)) ("Err") or None ("End").
Text(t)   == [kind |-> "Text",   text |-> t,    bytes |-> <<>>]
Binary(b) == [kind |-> "Binary", text |-> <<>>, bytes |-> b]
Control(k) == [kind |-> k,       text |-> <<>>, bytes |-> <<>>]

\* The inbound messages the peer chooses from.
Inbound ==
    { Text(<<"2", ";", "2", "4", ";", "8", "0">>),          \* "2;24;80"
      Text(<<"0", ";", "b", "H", "M", "K">>),               \* "0;bHMK" = base64("ls\n")
      Text(<<"1", ";", "h", "i">>),                         \* "1;hi"
      Text(<<"0", ";", "b", "H", "M">>),                    \* "0;bHM": not base64
      Text(<<"2", ";", "4", "0">>),                         \* "2;40": no columns
      Text(<<"2", ";", "x", ";", "8", "0">>),               \* "2;x;80": rows not a number
      Text(<<"9", ";", "z">>),                              \* unrecognized prefix
      Binary(<<108, 115, 10>>),                             \* b"ls\n"
      Control("Ping"), Control("Pong"), Control("Close"),
      Control("Err"), Control("End") }

\* The decimal numeral of n, as a peer writes the rows and columns.
RECURSIVE Decimal(_)
Decimal(n) == IF n < 10 THEN <<Digits[n + 1]>> ELSE Decimal(n \div 10) \o <<Digits[(n % 10) + 1]>>

\* Payloads of well-formed messages: b"hello", b"h", b"ls\n" in base64 (one
\* "=", two, none); b"hello" in a binary frame; "echo hi"; 40x120 and the
\* extremes of u16.
RawSamples  == {<<104, 101, 108, 108, 111>>, <<104>>, <<108, 115, 10>>}
BinSamples  == {<<104, 101, 108, 108, 111>>}
TextSamples == {<<"e", "c", "h", "o", " ", "h", "i">>}
SizeSamples == {<<40, 120>>, <<0, 65535>>}

\* The wire protocol on the samples: each well-formed message with the
\* command it stands for, the n-th to arrive.
WireCases(n) ==
    {[msg |-> Text(<<"0", ";">> \o B64Encode(b)), item |-> Input(b, n)] : b \in RawSamples}
    \cup {[msg |-> Text(<<"1", ";">> \o t), item |-> InputString(t, n)] : t \in TextSamples}
    \cup {[msg |-> Text(<<"2", ";">> \o Decimal(sz[1]) \o <<";">> \o Decimal(sz[2])),
           item |-> Resize(sz, n)] : sz \in SizeSamples}
    \cup {[msg |-> Binary(b), item |-> Input(b, n)] : b \in BinSamples}

\* The well-formed messages a peer chooses from.
WellFormed == {c.msg : c \in WireCases(0)}

\* DecodeText keeping the prefix in the text of an input string.
DecodeTextKeepPrefix(t, n) ==
    IF StartsWith(t, <<"0", ";">>)
    THEN LET data == B64Decode(From2(t)) IN
           IF data.ok THEN Some(Input(data.bytes, n)) ELSE "panic"
    ELSE IF StartsWith(t, <<"1", ";">>)
    THEN Some(InputString(t, n))
    ELSE IF StartsWith(t, <<"2", ";">>)
    THEN LET split == Split(t, ";") IN
           IF Len(split) >= 3 /\ ParseU16(split[2]).ok /\ ParseU16(split[3]).ok
           THEN Some(Resize(<<ParseU16(split[2]).val, ParseU16(split[3]).val>>, n))
           ELSE "panic"
    ELSE None

\* The decode of a text frame, as the if/else-if chain computes it:
\* <<item>> to enqueue, <<>> for a frame that is only logged, "panic" when an
\* unwrap() or an index fails.
DecodeText(t, n) ==
    IF StartsWith(t, <<"0", ";">>)
    THEN LET data == B64Decode(From2(t)) IN
           IF data.ok THEN Some(Input(data.bytes, n)) ELSE "panic"
    ELSE IF StartsWith(t, <<"1", ";">>)
    THEN Some(InputString(From2(t), n))
    ELSE IF StartsWith(t, <<"2", ";">>)
    THEN LET split == Split(t, ";") IN
           IF Len(split) >= 3 /\ ParseU16(split[2]).ok /\ ParseU16(split[3]).ok
           THEN Some(Resize(<<ParseU16(split[2]).val, ParseU16(split[3]).val>>, n))
           ELSE "panic"
    ELSE None

\* Frames sent to the peer.
BinaryFrame(b) == [kind |-> "Binary", bytes |-> b,    text |-> ""]
TextFrame(t)   == [kind |-> "Text",   bytes |-> <<>>, text |-> t]
PongFrame      == [kind |-> "Pong",   bytes |-> <<>>, text |-> ""]
\* format!("0;{}", STANDARD.encode(&output)): the payload is kept as the bytes
\* it encodes (the frame is never built: use_binary is true).
Base64Frame(b) == [kind |-> "Text",   bytes |-> b,    text |-> "0;"]

\* let use_binary = true;
use_binary == TRUE

\* An unwrap() fails: handle_socket unwinds, dropping the stream and the sink.
SocketPanic(cause) ==
    /\ socket_pc' = "panicked"
    /\ panic_cause' = cause
    /\ pending' = None

\* SocketSendInput with a try_send: a full channel drops the item.
SocketSendInputDrop(item) ==
    IF ReceiverClosed
    THEN /\ SocketPanic("enqueue")
         /\ input_q' = input_q
    ELSE /\ input_q' = IF Len(input_q) < InputQueueCap THEN Enqueue(input_q, item) ELSE input_q
         /\ socket_pc' = "select"
         /\ pending' = None
         /\ panic_cause' = panic_cause

\* command_rx.send(item).await.unwrap(): with the receiver dropped the send
\* fails and unwrap panics; with a free slot the item enters the channel at
\* once; with the channel full the send suspends until a slot is free.
SocketSendInput(item) ==
    IF ReceiverClosed
    THEN /\ SocketPanic("enqueue")
         /\ input_q' = input_q
    ELSE IF Len(input_q) < InputQueueCap
    THEN /\ input_q' = Enqueue(input_q, item)
         /\ socket_pc' = "select"
         /\ pending' = None
         /\ panic_cause' = panic_cause
    ELSE /\ input_q' = input_q
         /\ socket_pc' = "enqueue"
         /\ pending' = Some(item)
         /\ panic_cause' = panic_cause

\* tx.send(frame).await is started; final: the loop breaks after it.
SocketStartPeerSend(frame, final) ==
    /\ socket_pc' = "peerSend"
    /\ pending' = Some([frame |-> frame, final |-> final])
    /\ panic_cause' = panic_cause

\* msg = rx.next() => { ... }: the handler of the inbound message msg.
SocketHandle(msg) ==
    /\ socket_pc = "select"
    /\ n_recv < MaxMsgs
    /\ n_recv' = n_recv + 1
    /\ IF msg.kind \in {"Close", "Err", "End"}
       THEN /\ FireAborter
            /\ socket_pc' = "done"
            /\ UNCHANGED <<pending, panic_cause, input_q>>
       ELSE /\ UNCHANGED <<aborter_notified, abort_fires, fired_at>>
            /\ CASE msg.kind = "Text" ->
                      LET d == DecodeText(msg.text, n_recv + 1) IN
                        IF d = "panic" THEN SocketPanic("decode") /\ input_q' = input_q
                        ELSE IF d = None THEN UNCHANGED <<socket_pc, pending, panic_cause, input_q>>
                        ELSE SocketSendInput(d[1])
                 [] msg.kind = "Binary" -> SocketSendInput(Input(msg.bytes, n_recv + 1))
                 [] msg.kind = "Ping"   -> SocketStartPeerSend(PongFrame, FALSE) /\ input_q' = input_q
                 [] msg.kind = "Pong"   -> UNCHANGED <<socket_pc, pending, panic_cause, input_q>>
    /\ UNCHANGED <<envVars, stream_pc, out_stream, events, kills, task_pc, exited_notified,
                   cur_input, pty_log, peer_frames, wait_failures>>

\* The peer sends any message of Inbound.
SocketRecv ==
    /\ \E msg \in Inbound : SocketHandle(msg)
    /\ UNCHANGED inbox

\* The peer sends a well-formed message, which is kept in inbox.
SocketRecvKept ==
    \E msg \in WellFormed :
       /\ SocketHandle(msg)
       /\ inbox' = Append(inbox, msg)

\* A suspended command_rx.send(item).await is resumed: a slot is free, or
\* the receiver is gone.
SocketEnqueue ==
    /\ socket_pc = "enqueue"
    /\ ReceiverClosed \/ Len(input_q) < InputQueueCap
    /\ SocketSendInput(pending[1])
    /\ UNCHANGED peer_frames

\* SocketPeerSend without the break after the status frame.
SocketPeerSendNoBreak ==
    /\ socket_pc = "peerSend"
    /\ peer_frames' = Append(peer_frames, pending[1].frame)
    /\ socket_pc' = "select"
    /\ pending' = None
    /\ UNCHANGED <<panic_cause, input_q>>

\* tx.send(frame).await.unwrap() returned Ok.
SocketPeerSend ==
    /\ socket_pc = "peerSend"
    /\ peer_frames' = Append(peer_frames, pending[1].frame)
    /\ socket_pc' = IF pending[1].final THEN "done" ELSE "select"
    /\ pending' = None
    /\ UNCHANGED <<panic_cause, input_q>>

\* tx.send(frame).await.unwrap() returned Err.
SocketPeerSendErr ==
    /\ socket_pc = "peerSend"
    /\ SocketPanic("peerSend")
    /\ UNCHANGED <<peer_frames, input_q>>

SocketAwaits == {"enqueue", "peerSend", "peerSendErr"}

\* handle_socket is resumed from the send it awaits, by how the send ends.
SocketResume ==
    /\ \E how \in SocketAwaits :
         CASE how = "enqueue"     -> SocketEnqueue
           [] how = "peerSend"    -> SocketPeerSend
           [] how = "peerSendErr" -> SocketPeerSendErr
    /\ UNCHANGED <<envVars, streamVars, task_pc, exited_notified, cur_input, pty_log,
                   n_recv, histVars>>

\* Some(output) = command_tx.next() => match output { ... }
\* The stream is polled only here, while handle_socket waits in its select!.
SocketPoll ==
    /\ socket_pc = "select"
    /\ \E arm \in StreamArms : StreamPoll(arm)
    /\ IF events' = events
       THEN UNCHANGED <<socket_pc, pending, panic_cause>>
       ELSE LET output == Last(events') IN
              CASE output.type = "Output" ->
                     IF use_binary
                     THEN SocketStartPeerSend(BinaryFrame(output.data), FALSE)
                     ELSE SocketStartPeerSend(Base64Frame(output.data), FALSE)
                [] output.type = "Error" -> UNCHANGED <<socket_pc, pending, panic_cause>>
                [] output.type = "Exit" -> SocketStartPeerSend(TextFrame("1;" \o output.text), TRUE)
    /\ UNCHANGED <<task_pc, input_q, cur_input, pty_log, n_recv, peer_frames,
                   abort_fires, fired_at, inbox>>

Init == InitCommon /\ socket_pc = "select"

Next ==
    \/ ChildEmit
    \/ ChildExit
    \/ TaskRun
    \/ SocketRecv
    \/ SocketResume
    \/ SocketPoll

Spec == Init /\ [][Next]_vars

\* handle_socket with a peer that sends well-formed input messages only, and
\* a child that prints nothing.
NextDecode ==
    \/ ChildExit
    \/ TaskRun
    \/ SocketRecvKept
    \/ SocketResume
    \/ SocketPoll

SpecDecode == Init /\ [][NextDecode]_vars

\* A session whose input task has not run yet while the peer has sent
\* InputQueueCap one-byte inputs: the channel is full. The backlog arrived
\* before the messages the model numbers from 1, hence its arrival numbers.
\* The child keeps running and the peer sends well-formed input.
Backlog == [i \in 1..InputQueueCap |-> Input(<<10>>, i - InputQueueCap)]

InitFull == InitSession(Backlog) /\ socket_pc = "select"

NextFull ==
    \/ ChildEmit
    \/ TaskRun
    \/ SocketRecvKept
    \/ SocketResume
    \/ SocketPoll

SpecFull == InitFull /\ [][NextFull]_vars

\* ------------------------------------------------------------------ claims
\* The concatenation of the data of the Output items of evs.
RECURSIVE DataOf(_)
DataOf(evs) ==
    IF evs = <<>> THEN <<>>
    ELSE (IF Head(evs).type = "Output" THEN Head(evs).data ELSE <<>>) \o DataOf(Tail(evs))

ExitCount == Cardinality({i \in 1..Len(events) : events[i].type = "Exit"})
ErrorCount == Cardinality({i \in 1..Len(events) : events[i].type = "Error"})

\* The stream ended with the Exit of a process that exited on its own.
EndedByExit == events # <<>> /\ Last(events).type = "Exit" /\ Last(events).text # AbortedText

\* The stream ended with Exit("Aborted").
EndedByAbort == events # <<>> /\ Last(events) = Exit(AbortedText)

\* No step of handle_socket, the task, the stream or the child is left.
SessionOver == ~ENABLED Next

\* C1: when the stream reports the exit of the process (and no read or wait
\* failed), the Output items before the Exit carry, in order, every chunk the
\* child wrote before it exited: none is lost, none reordered.
C1_OutputComplete ==
    (EndedByExit /\ ErrorCount = 0) => DataOf(events) = [i \in 1..emitted |-> i]

\* C2: once the aborter has been fired while the stream was suspended at the
\* yield of an Output item, the child still running, a stream polled to its
\* end has attempted the kill and ended with the one Exit("Aborted").
C2_AbortAtYieldAborts ==
    (fired_at = "yieldLoop" /\ ErrorCount = 0 /\ stream_pc = "done")
        => (kills >= 1 /\ ExitCount = 1 /\ EndedByAbort)

\* C3: when the session is over and the peer connection was closed with the
\* child still running, start_kill was called and the stream ended with
\* Exit("Aborted").
C3_PeerCloseAborts ==
    (SessionOver /\ fired_at # "") => (kills >= 1 /\ EndedByAbort)

\* C4: an Exit item is the last item of the stream, so there is at most one;
\* the stream is past its loop exactly when it has yielded it; and the kill
\* goes with Exit("Aborted") alone: the two outcomes exclude each other.
C4_ExitOnceAndLast ==
    /\ \A i \in 1..Len(events) : events[i].type = "Exit" => i = Len(events)
    /\ stream_pc \in {"yieldExit", "done"} <=> (events # <<>> /\ Last(events).type = "Exit")
    /\ kills <= 1
    /\ kills = 1 <=> EndedByAbort

\* C4 witness: the child had exited on its own and the aborter had woken the
\* stream, abort was the arm taken, and the stream ended after Output items
\* with the single Exit("Aborted").
C4_Witness ==
    /\ stream_pc = "done"
    /\ Len(events) >= 2
    /\ events[1].type = "Output"
    /\ EndedByAbort
    /\ status # None

\* C5: when the session is over and the stream has yielded its Exit, the
\* input task has left its loop.
C5_InputTaskEnds ==
    (SessionOver /\ ExitCount > 0) => task_pc \in {"done", "panicked"}

\* The arrival numbers of the items of s.
SeqsOf(s) == [i \in 1..Len(s) |-> s[i].seq]

\* The input commands in the order the program holds them: applied to the
\* PTY, being written, waiting in the channel.
InputOrder == SeqsOf(pty_log) \o SeqsOf(cur_input) \o SeqsOf(input_q)

\* C6: input commands are applied to the PTY write half in the order of their
\* arrival, resizes and writes alike, each once, and the ones not yet applied
\* wait in that order.
C6_InputInArrivalOrder ==
    \A i, j \in 1..Len(InputOrder) : i < j => InputOrder[i] < InputOrder[j]

\* C6 witness: Resize(24,80) arrived first and Input(b"ls\n") second, and the
\* PTY was resized to 24x80 before the three bytes were written.
C6_Witness ==
    /\ Len(pty_log) = 2
    /\ pty_log[1].op = "resize" /\ pty_log[1].size = <<24, 80>> /\ pty_log[1].ok /\ pty_log[1].seq = 1
    /\ pty_log[2].op = "write" /\ pty_log[2].bytes = <<108, 115, 10>> /\ pty_log[2].seq = 2

\* C7: once the aborter has been fired, a stream waiting in its select! has
\* been woken, whether its wait began before the firing or after it.
C7_FiredIsObserved ==
    (abort_fires > 0 /\ stream_pc = "select") => aborter_notified

\* C8: a firing of the aborter after the first changes nothing: what the
\* stream will do is what it would have done after the first alone.
C8_LaterFiringsNoOp ==
    [][(abort_fires >= 1 /\ abort_fires' > abort_fires)
          => aborter_notified' = aborter_notified]_vars

\* C9: once child.wait() has failed, the stream has yielded an Exit and is
\* past its loop.
C9_WaitErrorEnds ==
    wait_failures > 0 => (ExitCount > 0 /\ stream_pc \in {"yieldExit", "done"})

\* C10: a failed PTY write in the input task never makes a later enqueue
\* unwind handle_socket.
C10_WriteErrorContained ==
    ~(task_pc = "panicked" /\ socket_pc = "panicked" /\ panic_cause = "enqueue")

\* C11: no inbound text frame makes its decode unwind handle_socket: a frame
\* that cannot be decoded is logged and dropped, and the loop goes on.
C11_MalformedDiscarded ==
    ~(socket_pc = "panicked" /\ panic_cause = "decode")

\* C12: each well-formed message is decoded into the one command the wire
\* protocol gives it - "0;" + base64(b) into Input(b), "1;" + s into
\* InputString(s), "2;r;c" into Resize(r, c), a binary frame into Input of its
\* bytes - and, the input task holding the receiver, that command and nothing
\* else enters the channel when the message is received.
C12_DecodeMapsEachMessage ==
    [][inbox' # inbox =>
         \A c \in WireCases(n_recv') :
            Last(inbox') = c.msg =>
               \/ ~ReceiverClosed /\ input_q' = Append(input_q, c.item)
               \/ ReceiverClosed /\ input_q' = input_q /\ panic_cause' = "enqueue"]_vars

\* C12 witness: "2;40;120" and then "0;aGVsbG8=" were received, and the
\* channel holds Resize(40,120) and Input(b"hello").
C12_Witness ==
    /\ inbox = <<Text(<<"2", ";", "4", "0", ";", "1", "2", "0">>),
                 Text(<<"0", ";", "a", "G", "V", "s", "b", "G", "8", "=">>)>>
    /\ input_q = <<Resize(<<40, 120>>, 1), Input(<<104, 101, 108, 108, 111>>, 2)>>

\* C13: the channel never holds more than InputQueueCap commands; a command
\* received while it is full, the input task holding the receiver, is held
\* by the suspended send - not put in, not dropped, no failure - and stays
\* held until it enters the channel behind the others.
C13_Backpressure ==
    [][/\ Len(input_q') <= InputQueueCap
       /\ (n_recv' > n_recv /\ ~ReceiverClosed /\ Len(input_q) = InputQueueCap)
            => (input_q' = input_q /\ socket_pc' = "enqueue" /\ panic_cause' = ""
                /\ pending' # None /\ pending'[1].seq = n_recv')
       /\ (socket_pc = "enqueue" /\ ~ReceiverClosed')
            => \/ socket_pc' = "enqueue" /\ pending' = pending
               \/ socket_pc' = "select" /\ input_q' = Append(input_q, pending[1])]_vars

\* C13 witness: the second message met a full channel and was held; the
\* input task took an item, and the held command is now the last of a
\* channel that is full again.
C13_Witness ==
    /\ n_recv = 2
    /\ socket_pc = "select"
    /\ Len(input_q) = InputQueueCap
    /\ Last(input_q).seq = 2
    /\ Len(pty_log) = MaxApplied

\* C14: when the session is over and the aborter was fired, every flow has
\* left its suspension and terminated: the stream has returned, the input
\* task has left its loop, handle_socket has returned.
C14_AbortUnblocksAll ==
    (SessionOver /\ abort_fires > 0)
        => /\ stream_pc = "done"
           /\ task_pc \in {"done", "panicked"}
           /\ socket_pc \in {"done", "panicked"}

\* What the items evs are to the peer: a frame for each Output, none for an
\* Error, the status frame for the Exit.
RECURSIVE FramesOf(_)
FramesOf(evs) ==
    IF evs = <<>> THEN <<>>
    ELSE (CASE Head(evs).type = "Output" -> <<BinaryFrame(Head(evs).data)>>
            [] Head(evs).type = "Error"  -> <<>>
            [] Head(evs).type = "Exit"   -> <<TextFrame("1;" \o Head(evs).text)>>)
         \o FramesOf(Tail(evs))

NotPong(f) == f.kind # "Pong"

\* The frames sent to the peer for the items of the stream, and the one
\* being sent.
OutputFrames == SelectSeq(peer_frames, NotPong)
FrameInFlight ==
    IF socket_pc = "peerSend" /\ NotPong(pending[1].frame) THEN <<pending[1].frame>> ELSE <<>>

\* C15: the peer is sent a frame for each Output item, in order, nothing for
\* an Error item, and the status frame for the Exit; the status frame is the
\* last frame sent, handle_socket returning after it; and after a Close, an
\* error or the end of the inbound stream no status frame is sent.
C15_PeerFrames ==
    /\ IF socket_pc = "panicked"
       THEN \E n \in 0..Len(events) : OutputFrames = FramesOf(SubSeq(events, 1, n))
       ELSE OutputFrames \o FrameInFlight = FramesOf(events)
    /\ \A i \in 1..Len(peer_frames) :
          peer_frames[i].kind = "Text" => (i = Len(peer_frames) /\ socket_pc = "done")
    /\ abort_fires > 0 => \A i \in 1..Len(peer_frames) : peer_frames[i].kind # "Text"

\* C15 witness: the stream yielded an Output, an Error and the Exit of a
\* child that exited with code 0; the peer was sent the output frame and the
\* status frame, and handle_socket returned.
C15_Witness ==
    /\ Len(events) = 3
    /\ events[1].type = "Output" /\ events[2].type = "Error"
    /\ peer_frames = <<BinaryFrame(events[1].data),
                       TextFrame("1;Command exited with status code: 0")>>
    /\ socket_pc = "done"

\* C16: once handle_socket has taken the Exit of a child that exited on its
\* own, the aborter is not fired, no command enters the channel and nothing
\* more is written to the PTY write half.
IsWrite(op) == op.op = "write"

C16_NoInputAfterExit ==
    [][(EndedByExit /\ socket_pc \in {"peerSend", "done", "panicked"})
          => /\ abort_fires' = abort_fires
             /\ Len(input_q') <= Len(input_q)
             /\ SelectSeq(pty_log', IsWrite) = SelectSeq(pty_log, IsWrite)]_vars

\* The Error items a failed read of the PTY produced: those that are not the
\* report of a failed child.wait().
ReadErrorItems == {i \in 1..Len(events) : events[i].type = "Error" /\ events[i].text # IoErrorText(10)}

\* C17: a failed read of the PTY yields no item when it is EIO and one Error
\* item otherwise, and never ends the stream: an Exit is yielded only once
\* the child has exited, Exit("Aborted") only on a firing of the aborter with
\* the kill, and a stream whose reader has failed goes on while the child runs.
C17_ReadErrorNotTerminal ==
    /\ \A i \in 1..Len(events) : events[i].text # IoErrorText(5)
    /\ Cardinality(ReadErrorItems) <= 1
    /\ ReadErrorItems # {} => out_stream = "closed"
    /\ ExitCount > 0 => child = "exited"
    /\ EndedByAbort => (abort_fires > 0 /\ kills = 1)
    /\ (out_stream = "closed" /\ child = "running") => stream_pc \in {"yieldLoop", "select"}

\* C17 witness: a read failed with an error other than EIO while the child
\* ran; the stream yielded the one Error item, went on, and ended with the
\* Exit of the child that exited later.
C17_Witness ==
    /\ Len(events) = 3
    /\ events[1].type = "Output"
    /\ events[2] = Error(IoErrorText(9))
    /\ EndedByExit
    /\ stream_pc = "done"

\* C18: in a session in which the peer sent nothing and the child printed
\* one chunk and exited with code 0, no read or wait failing, the stream
\* yielded that chunk and then the Exit with status code 0, and nothing was
\* applied to the PTY write half.
C18_QuietSession ==
    (n_recv = 0 /\ emitted = 1 /\ status = Some(0) /\ ErrorCount = 0 /\ ExitCount > 0)
        => /\ events = <<Output(<<1>>), Exit("Command exited with status code: 0")>>
           /\ pty_log = <<>>

\* C19: the flows of a session never wait on one another in a circle: there
\* is no state, the child running, in which handle_socket is suspended on the
\* send into a full channel, the input task is suspended on a PTY write, and
\* the child has written output that only the suspended handle_socket would
\* read.
C19_NoCircularWait ==
    ~(/\ socket_pc = "enqueue" /\ Len(input_q) = InputQueueCap
      /\ task_pc = "writing"
      /\ child = "running" /\ pty_buf # <<>>)

====
